---------------------------- MODULE Spec2Model ----------------------------
(***************************************************************************)
(* Model of src/player.py: the AudioPlayer playback queue (queue, idx,     *)
(* paused and the vlc media player it drives) and the key dispatch of the  *)
(* curses main loop that calls it.                                         *)
(*                                                                         *)
(* The AudioPlayer object is the record `player`; its methods are          *)
(* operators from a player record to the player record the call leaves     *)
(* behind, so that a handler that makes several calls is their             *)
(* composition.  The vlc media player is the field `player.player`, with   *)
(* the media it holds, its libvlc state and the calls it received during   *)
(* the operation in progress.                                              *)
(***************************************************************************)
EXTENDS Integers, Sequences, FiniteSets, TLC

VARIABLES
    player,     \* the AudioPlayer object: queue, idx, paused, player (vlc)
    last,       \* the operation that produced this state, and the state before it
    pc,         \* where main is: "loop" (head of the loop), "getch", "exited"
    focus,      \* "left" (browser) or "right" (queue)
    left_cursor,
    left_top,   \* first row of the browser list that is drawn
    right_cursor,
    right_top,  \* first row of the queue list that is drawn
    cwd,        \* the directory the browser shows
    all_entries,            \* its listing, as last read
    entries,                \* the listing as filtered
    filter_text,
    search_mode,
    filter_before_search,
    shown_before_search,    \* history: what was on screen when the search in progress began
    present     \* the mp3 files that exist in the music folder

-----------------------------------------------------------------------------
(* Bounds *)

\* longest queue the model builds
MaxQueue == 3
\* longest list handed to set_queue / add_to_queue in one call
MaxFiles == 2
\* longest filter text typed in search mode
MaxFilter == 1
\* rows of the terminal, stdscr.getmaxyx()[0]
ScreenRows == 5

\* the printable keys typed in search mode
TypedChars == {"A"}

\* the mp3 files there are (Path objects, equal by path)
Tracks == {"a", "b", "c"}

\* what current() returns when there is no current track, and the vlc
\* player's media before any set_media
None == "None"

\* indices a caller may pass: every valid one and one beyond each end
Indices == -1 .. MaxQueue

Directions == {-1, 1}

RECURSIVE SeqsUpTo(_)
SeqsUpTo(n) ==
    IF n = 0 THEN {<<>>}
    ELSE LET shorter == SeqsUpTo(n - 1)
         IN  shorter \cup {Append(s, t) : s \in {x \in shorter : Len(x) = n - 1}, t \in Tracks}

FileLists == SeqsUpTo(MaxFiles)

-----------------------------------------------------------------------------
(* The vlc media player, as AudioPlayer uses it *)

VlcStates == {"NothingSpecial", "Playing", "Paused", "Stopped", "Ended"}

\* instance.media_player_new()
media_player_new == [media |-> None, state |-> "NothingSpecial", calls |-> <<>>]

\* player.set_media(media); player.play()
vlc_set_media_play(mp, track) ==
    [media |-> track, state |-> "Playing",
     calls |-> mp.calls \o << <<"set_media", track>>, <<"play">> >>]

\* player.pause(): libvlc toggles pause; no effect unless playing or paused
vlc_pause(mp) ==
    [mp EXCEPT !.state = IF mp.state = "Playing" THEN "Paused"
                         ELSE IF mp.state = "Paused" THEN "Playing"
                         ELSE mp.state,
               !.calls = Append(mp.calls, <<"pause">>)]

\* player.stop()
vlc_stop(mp) ==
    [mp EXCEPT !.state = "Stopped", !.calls = Append(mp.calls, <<"stop">>)]

\* player.is_playing()
vlc_is_playing(mp) == mp.state = "Playing"

-----------------------------------------------------------------------------
(* class AudioPlayer *)

\* AudioPlayer.__init__
AudioPlayer_init ==
    [queue |-> <<>>, idx |-> -1, paused |-> FALSE, player |-> media_player_new]

\* Python list indices are 0-based: queue[i] is the (i+1)-th element
At(q, i) == q[i + 1]

\* list.pop(i) for a valid i
Pop(q, i) == [k \in 1 .. Len(q) - 1 |-> IF k <= i THEN q[k] ELSE q[k + 1]]

\* q[i], q[j] = q[j], q[i]
Swap(q, i, j) ==
    [k \in 1 .. Len(q) |-> IF k = i + 1 THEN q[j + 1]
                           ELSE IF k = j + 1 THEN q[i + 1]
                           ELSE q[k]]

Max(a, b) == IF a >= b THEN a ELSE b
Min(a, b) == IF a <= b THEN a ELSE b

\* a set_queue that forgets the empty case
set_queue_idx0(self, files) ==
    [self EXCEPT !.queue = files, !.idx = 0]

set_queue(self, files) ==
    [self EXCEPT !.queue = files,
                 !.idx = IF files # <<>> THEN 0 ELSE -1]

current(self) ==
    IF 0 <= self.idx /\ self.idx < Len(self.queue)
    THEN At(self.queue, self.idx)
    ELSE None

play_current(self) ==
    LET cur == current(self)
    IN  IF cur = None THEN self
        ELSE [self EXCEPT !.player = vlc_set_media_play(self.player, cur),
                          !.paused = FALSE]

play_index(self, i) ==
    IF self.queue = <<>> THEN self
    ELSE play_current([self EXCEPT !.idx = Max(0, Min(i, Len(self.queue) - 1))])

toggle_pause(self) ==
    IF vlc_is_playing(self.player)
    THEN [self EXCEPT !.player = vlc_pause(self.player), !.paused = TRUE]
    ELSE IF self.paused
         THEN [self EXCEPT !.player = vlc_pause(self.player), !.paused = FALSE]
         ELSE [play_current(self) EXCEPT !.paused = FALSE]

\* a next that stops at the last track instead of wrapping
next_nowrap(self) ==
    IF self.queue = <<>> THEN self
    ELSE play_current([self EXCEPT !.idx = Min(self.idx + 1, Len(self.queue) - 1)])

next(self) ==
    IF self.queue = <<>> THEN self
    ELSE play_current([self EXCEPT !.idx = (self.idx + 1) % Len(self.queue)])

prev(self) ==
    IF self.queue = <<>> THEN self
    ELSE play_current([self EXCEPT !.idx = (self.idx - 1) % Len(self.queue)])

\* an add_to_queue that restarts playback on every append
add_to_queue_restart(self, files) ==
    IF files = <<>> THEN self
    ELSE play_current([self EXCEPT !.queue = self.queue \o files, !.idx = 0])

add_to_queue(self, files) ==
    IF files = <<>> THEN self
    ELSE LET was_empty == Len(self.queue) = 0
             extended == [self EXCEPT !.queue = self.queue \o files]
         IN  IF was_empty
             THEN play_current([extended EXCEPT !.idx = 0])
             ELSE extended

\* list.pop(i) as Python does it for -len <= i < len: a negative i counts from the end
PyPop(q, i) == Pop(q, IF i < 0 THEN i + Len(q) ELSE i)

\* a remove_index whose guard forgets the lower bound
remove_index_noguard(self, i) ==
    IF ~(-Len(self.queue) <= i /\ i < Len(self.queue)) THEN self
    ELSE LET popped == [self EXCEPT !.queue = PyPop(self.queue, i)]
         IN  IF popped.queue = <<>>
             THEN [popped EXCEPT !.idx = -1, !.player = vlc_stop(popped.player)]
             ELSE IF i = self.idx
                  THEN play_current(
                         [popped EXCEPT !.idx = IF i >= Len(popped.queue)
                                                THEN Len(popped.queue) - 1
                                                ELSE i])
                  ELSE IF i < popped.idx
                       THEN [popped EXCEPT !.idx = popped.idx - 1]
                       ELSE popped

\* a remove_index that keeps idx where it was when the current track goes
remove_index_noclamp(self, i) ==
    IF ~(0 <= i /\ i < Len(self.queue)) THEN self
    ELSE LET popped == [self EXCEPT !.queue = Pop(self.queue, i)]
         IN  IF popped.queue = <<>>
             THEN [popped EXCEPT !.idx = -1, !.player = vlc_stop(popped.player)]
             ELSE IF i = self.idx
                  THEN play_current(popped)
                  ELSE IF i < popped.idx
                       THEN [popped EXCEPT !.idx = popped.idx - 1]
                       ELSE popped

\* a remove_index that never shifts idx
remove_index_noshift(self, i) ==
    IF ~(0 <= i /\ i < Len(self.queue)) THEN self
    ELSE LET popped == [self EXCEPT !.queue = Pop(self.queue, i)]
         IN  IF popped.queue = <<>>
             THEN [popped EXCEPT !.idx = -1, !.player = vlc_stop(popped.player)]
             ELSE IF i = self.idx
                  THEN play_current(
                         [popped EXCEPT !.idx = IF i >= Len(popped.queue)
                                                THEN Len(popped.queue) - 1
                                                ELSE i])
                  ELSE popped

\* a remove_index that leaves the engine running when the queue empties
remove_index_nostop(self, i) ==
    IF ~(0 <= i /\ i < Len(self.queue)) THEN self
    ELSE LET popped == [self EXCEPT !.queue = Pop(self.queue, i)]
         IN  IF popped.queue = <<>>
             THEN [popped EXCEPT !.idx = -1]
             ELSE IF i = self.idx
                  THEN play_current(
                         [popped EXCEPT !.idx = IF i >= Len(popped.queue)
                                                THEN Len(popped.queue) - 1
                                                ELSE i])
                  ELSE IF i < popped.idx
                       THEN [popped EXCEPT !.idx = popped.idx - 1]
                       ELSE popped

remove_index(self, i) ==
    IF ~(0 <= i /\ i < Len(self.queue)) THEN self
    ELSE LET removing_current == (i = self.idx)
             popped == [self EXCEPT !.queue = Pop(self.queue, i)]
         IN  IF popped.queue = <<>>
             THEN [popped EXCEPT !.idx = -1, !.player = vlc_stop(popped.player)]
             ELSE IF removing_current
                  THEN play_current(
                         [popped EXCEPT !.idx = IF i >= Len(popped.queue)
                                                THEN Len(popped.queue) - 1
                                                ELSE i])
                  ELSE IF i < popped.idx
                       THEN [popped EXCEPT !.idx = popped.idx - 1]
                       ELSE popped

\* a move_index that swaps the entries and leaves idx on the position
move_index_nofollow(self, i, direction) ==
    LET j == i + direction
    IN  IF ~(0 <= i /\ i < Len(self.queue)) \/ ~(0 <= j /\ j < Len(self.queue))
        THEN self
        ELSE [self EXCEPT !.queue = Swap(self.queue, i, j)]

move_index(self, i, direction) ==
    LET j == i + direction
    IN  IF ~(0 <= i /\ i < Len(self.queue)) \/ ~(0 <= j /\ j < Len(self.queue))
        THEN self
        ELSE LET swapped == [self EXCEPT !.queue = Swap(self.queue, i, j)]
             IN  IF swapped.idx = i THEN [swapped EXCEPT !.idx = j]
                 ELSE IF swapped.idx = j THEN [swapped EXCEPT !.idx = i]
                 ELSE swapped

-----------------------------------------------------------------------------
(* The music folder: directories and the mp3 files in them *)

Dirs == {"top", "music", "album"}

\* Path.parent; the topmost directory is its own parent
Parent(d) == CASE d = "music" -> "top" [] d = "album" -> "music" [] OTHER -> "top"

\* the mp3 files of the music folder, and the directory each lies in: the
\* music directory holds a directory and two files, the album directory is empty
FolderFiles == {"a", "b"}
Home(t) == "music"

\* MUSIC_ROOT
MUSIC_ROOT == "music"

\* Path.name, a sequence of characters
Name(e) ==
    CASE e = "top" -> <<"t">>
      [] e = "music" -> <<"m">>
      [] e = "album" -> <<"A", "b">>
      [] e = "a" -> <<"a">>
      [] e = "b" -> <<"B">>
      [] e = "c" -> <<"c">>

\* str.lower
LowerChar(ch) == CASE ch = "A" -> "a" [] ch = "B" -> "b" [] OTHER -> ch
Lower(s) == [k \in 1 .. Len(s) |-> LowerChar(s[k])]

\* the order of characters, and of strings, that sorted() uses
CharRank(ch) ==
    CASE ch = "A" -> 1 [] ch = "B" -> 2 [] ch = "a" -> 3 [] ch = "b" -> 4
      [] ch = "c" -> 5 [] ch = "m" -> 6 [] OTHER -> 7

RECURSIVE StrLess(_, _)
StrLess(s, t) ==
    IF t = <<>> THEN FALSE
    ELSE IF s = <<>> THEN TRUE
    ELSE IF s[1] # t[1] THEN CharRank(s[1]) < CharRank(t[1])
    ELSE StrLess(Tail(s), Tail(t))

\* sorted(S, key=lambda p: p.name.lower())
RECURSIVE SortByName(_)
SortByName(S) ==
    IF S = {} THEN <<>>
    ELSE LET first == CHOOSE x \in S :
                         \A y \in S \ {x} : ~StrLess(Lower(Name(y)), Lower(Name(x)))
         IN  <<first>> \o SortByName(S \ {first})

is_dir(e) == e \in Dirs

\* the directories below d, d included (os.walk)
RECURSIVE Below(_)
Below(d) ==
    LET subs == {x \in Dirs : Parent(x) = d /\ x # d}
    IN  {d} \cup UNION {Below(x) : x \in subs}

\* list_dir(path) when the files `files` exist
list_dir(files, path) ==
    SortByName({d \in Dirs : Parent(d) = path /\ d # path})
        \o SortByName({t \in files : Home(t) = path})

\* collect_mp3s(folder) when the files `files` exist
collect_mp3s(files, folder) ==
    SortByName({t \in files : Home(t) \in Below(folder)})

\* t in s, for strings
Contains(s, t) ==
    \E k \in 0 .. Len(s) - Len(t) : SubSeq(s, k + 1, k + Len(t)) = t

\* apply_filter comparing the names as they are spelt
apply_filter_cased(ents, text) ==
    IF text = <<>> THEN ents
    ELSE LET Keep(e) == Contains(Name(e), text)
         IN  SelectSeq(ents, Keep)

apply_filter(ents, text) ==
    IF text = <<>> THEN ents
    ELSE LET Keep(e) == Contains(Lower(Name(e)), Lower(text))
         IN  SelectSeq(ents, Keep)

clamp(n, lo, hi) == Max(lo, Min(n, hi))

\* list.index(x): the first position of x; x is in s
IndexOf(s, x) == CHOOSE k \in 0 .. Len(s) - 1 : s[k + 1] = x /\ \A m \in 1 .. k : s[m] # x

Elems(s) == {s[k] : k \in 1 .. Len(s)}

-----------------------------------------------------------------------------
(* Calls on an AudioPlayer object, one action per method *)

browser == <<cwd, all_entries, entries, left_cursor, left_top, filter_text,
             search_mode, filter_before_search, shown_before_search>>
ui == <<pc, focus, right_cursor, right_top, browser, present, right_top>>
vars == <<player, last, ui>>

\* the object as an operation finds it: the vlc call log starts empty
Begin(self) == [self EXCEPT !.player.calls = <<>>]

Record(name, i, d, files) ==
    [op |-> name, i |-> i, d |-> d, files |-> files, pre |-> Begin(player)]

\* main, lines 287-312, with every file of the folder in place
Init ==
    /\ player = AudioPlayer_init
    /\ last = [op |-> "init", i |-> 0, d |-> 0, files |-> <<>>, pre |-> AudioPlayer_init]
    /\ present = FolderFiles
    /\ cwd = MUSIC_ROOT
    /\ all_entries = list_dir(FolderFiles, MUSIC_ROOT)
    /\ filter_text = <<>>
    /\ entries = apply_filter(list_dir(FolderFiles, MUSIC_ROOT), <<>>)
    /\ focus = "left"
    /\ left_cursor = 0
    /\ left_top = 0
    /\ right_cursor = 0
    /\ right_top = 0
    /\ search_mode = FALSE
    /\ filter_before_search = <<>>
    /\ shown_before_search = [text |-> <<>>, list |-> <<>>]
    /\ pc = "loop"

SetQueue(files) ==
    /\ Len(files) <= MaxQueue
    /\ player' = set_queue(Begin(player), files)
    /\ last' = Record("set_queue", 0, 0, files)
    /\ UNCHANGED ui

AddToQueue(files) ==
    /\ Len(player.queue) + Len(files) <= MaxQueue
    /\ player' = add_to_queue(Begin(player), files)
    /\ last' = Record("add_to_queue", 0, 0, files)
    /\ UNCHANGED ui

PlayCurrent ==
    /\ player' = play_current(Begin(player))
    /\ last' = Record("play_current", 0, 0, <<>>)
    /\ UNCHANGED ui

PlayIndex(i) ==
    /\ player' = play_index(Begin(player), i)
    /\ last' = Record("play_index", i, 0, <<>>)
    /\ UNCHANGED ui

TogglePause ==
    /\ player' = toggle_pause(Begin(player))
    /\ last' = Record("toggle_pause", 0, 0, <<>>)
    /\ UNCHANGED ui

NextTrack ==
    /\ player' = next(Begin(player))
    /\ last' = Record("next", 0, 0, <<>>)
    /\ UNCHANGED ui

PrevTrack ==
    /\ player' = prev(Begin(player))
    /\ last' = Record("prev", 0, 0, <<>>)
    /\ UNCHANGED ui

RemoveIndex(i) ==
    /\ player' = remove_index(Begin(player), i)
    /\ last' = Record("remove_index", i, 0, <<>>)
    /\ UNCHANGED ui

MoveIndex(i, direction) ==
    /\ player' = move_index(Begin(player), i, direction)
    /\ last' = Record("move_index", i, direction, <<>>)
    /\ UNCHANGED ui

\* the engine reaches the end of the track it is playing
TrackEnds ==
    /\ pc \in {"loop", "getch"}
    /\ player.player.state = "Playing"
    /\ player' = [Begin(player) EXCEPT !.player.state = "Ended"]
    /\ last' = Record("track_ends", 0, 0, <<>>)
    /\ UNCHANGED ui

NextAPI ==
    \/ \E files \in FileLists : SetQueue(files)
    \/ \E files \in FileLists : AddToQueue(files)
    \/ PlayCurrent
    \/ \E i \in Indices : PlayIndex(i)
    \/ TogglePause
    \/ NextTrack
    \/ PrevTrack
    \/ \E i \in Indices : RemoveIndex(i)
    \/ \E i \in Indices, direction \in Directions : MoveIndex(i, direction)
    \/ TrackEnds

SpecAPI == Init /\ [][NextAPI]_vars

-----------------------------------------------------------------------------
(* main: the loop, one action per key handler.  status_msg and what        *)
(* draw_ui puts on the screen are left out: the handlers read neither.     *)

\* a key the handler `name` is bound to has been read in normal mode
Key(name) ==
    /\ pc = "getch"
    /\ ~search_mode
    /\ pc' = "loop"
    /\ last' = Record(name, 0, 0, <<>>)

\* a key has been read in search mode
SearchKey(name) ==
    /\ pc = "getch"
    /\ search_mode
    /\ pc' = "loop"
    /\ last' = Record(name, 0, 0, <<>>)

\* an ensure_visible that scrolls one row short when the cursor is below the window
ensure_visible_short(cursor, top, height, total) ==
    IF total <= height THEN 0
    ELSE IF cursor < top THEN cursor
    ELSE IF cursor >= top + height THEN cursor - height
    ELSE top

\* ensure_visible(cursor, top, height, total)
ensure_visible(cursor, top, height, total) ==
    IF total <= height THEN 0
    ELSE IF cursor < top THEN cursor
    ELSE IF cursor >= top + height THEN cursor - height + 1
    ELSE top

\* lines 323-324: list_h = h - 3
list_h == ScreenRows - 3

\* LoopTop without the queue cursor sync
LoopTop_nosync(draw) ==
    /\ pc = "loop"
    /\ LET advanced == IF player.queue # <<>> /\ player.player.state = "Ended"
                       THEN next(Begin(player))
                       ELSE Begin(player)
       IN  /\ player' = advanced
           /\ IF draw
              THEN /\ left_top' = ensure_visible(left_cursor, left_top, list_h - 1,
                                                 Len(entries))
                   /\ right_top' = ensure_visible(right_cursor, right_top, list_h - 1,
                                                  Len(advanced.queue))
              ELSE UNCHANGED <<left_top, right_top>>
    /\ pc' = "getch"
    /\ last' = Record(IF draw THEN "draw" ELSE "loop", 0, 0, <<>>)
    /\ UNCHANGED <<focus, right_cursor, cwd, all_entries, entries, left_cursor,
                   filter_text, search_mode, filter_before_search,
                   shown_before_search, present>>

\* LoopTop without the automatic advance
LoopTop_noadvance(draw) ==
    /\ pc = "loop"
    /\ LET synced == IF focus # "right" /\ player.idx >= 0
                     THEN player.idx
                     ELSE right_cursor
       IN  /\ player' = Begin(player)
           /\ right_cursor' = synced
           /\ IF draw
              THEN /\ left_top' = ensure_visible(left_cursor, left_top, list_h - 1,
                                                 Len(entries))
                   /\ right_top' = ensure_visible(synced, right_top, list_h - 1,
                                                  Len(player.queue))
              ELSE UNCHANGED <<left_top, right_top>>
    /\ pc' = "getch"
    /\ last' = Record(IF draw THEN "draw" ELSE "loop", 0, 0, <<>>)
    /\ UNCHANGED <<focus, cwd, all_entries, entries, left_cursor, filter_text,
                   search_mode, filter_before_search, shown_before_search, present>>

\* lines 315-332: auto-advance at the end of a track, queue cursor sync and,
\* when more than 0.03 s have passed since the last frame (`draw`), the
\* scroll positions are recomputed and the frame is drawn
LoopTop(draw) ==
    /\ pc = "loop"
    /\ LET advanced == IF player.queue # <<>> /\ player.player.state = "Ended"
                       THEN next(Begin(player))
                       ELSE Begin(player)
           synced == IF focus # "right" /\ advanced.idx >= 0
                     THEN advanced.idx
                     ELSE right_cursor
       IN  /\ player' = advanced
           /\ right_cursor' = synced
           /\ IF draw
              THEN /\ left_top' = ensure_visible(left_cursor, left_top, list_h - 1,
                                                 Len(entries))
                   /\ right_top' = ensure_visible(synced, right_top, list_h - 1,
                                                  Len(advanced.queue))
              ELSE UNCHANGED <<left_top, right_top>>
    /\ pc' = "getch"
    /\ last' = Record(IF draw THEN "draw" ELSE "loop", 0, 0, <<>>)
    /\ UNCHANGED <<focus, cwd, all_entries, entries, left_cursor, filter_text,
                   search_mode, filter_before_search, shown_before_search, present>>

\* an iteration that draws no frame
LoopHead == LoopTop(FALSE)

\* an iteration that draws a frame
LoopDraw == LoopTop(TRUE)

\* lines 334-336: getch() returns -1
NoKey ==
    /\ pc = "getch"
    /\ pc' = "loop"
    /\ UNCHANGED <<player, last, focus, right_cursor, browser, present, right_top>>

\* SearchEsc without the restore: the search ends and the typed filter stays
SearchEsc_keep ==
    /\ SearchKey("search_esc")
    /\ search_mode' = FALSE
    /\ left_cursor' = 0
    /\ left_top' = 0
    /\ player' = Begin(player)
    /\ shown_before_search' = [text |-> <<>>, list |-> <<>>]
    /\ UNCHANGED <<focus, right_cursor, cwd, all_entries, entries, filter_text,
                   filter_before_search, present, right_top>>

\* lines 343-348
SearchEsc ==
    /\ SearchKey("search_esc")
    /\ search_mode' = FALSE
    /\ filter_text' = filter_before_search
    /\ entries' = apply_filter(all_entries, filter_before_search)
    /\ left_cursor' = 0
    /\ left_top' = 0
    /\ player' = Begin(player)
    /\ shown_before_search' = [text |-> <<>>, list |-> <<>>]
    /\ UNCHANGED <<focus, right_cursor, cwd, all_entries, filter_before_search,
                   present, right_top>>

\* lines 351-353
SearchEnter ==
    /\ SearchKey("search_enter")
    /\ search_mode' = FALSE
    /\ player' = Begin(player)
    /\ shown_before_search' = [text |-> <<>>, list |-> <<>>]
    /\ UNCHANGED <<focus, right_cursor, cwd, all_entries, entries, left_cursor,
                   left_top, filter_text, filter_before_search, present, right_top>>

\* lines 356-361
SearchBackspace ==
    /\ SearchKey("search_backspace")
    /\ IF filter_text # <<>>
       THEN /\ filter_text' = SubSeq(filter_text, 1, Len(filter_text) - 1)
            /\ entries' = apply_filter(all_entries,
                                       SubSeq(filter_text, 1, Len(filter_text) - 1))
            /\ left_cursor' = 0
            /\ left_top' = 0
       ELSE UNCHANGED <<filter_text, entries, left_cursor, left_top>>
    /\ player' = Begin(player)
    /\ UNCHANGED <<focus, right_cursor, cwd, all_entries, search_mode,
                   filter_before_search, shown_before_search, present, right_top>>

\* lines 364-368
SearchCtrlU ==
    /\ SearchKey("search_ctrl_u")
    /\ filter_text' = <<>>
    /\ entries' = all_entries
    /\ left_cursor' = 0
    /\ left_top' = 0
    /\ player' = Begin(player)
    /\ UNCHANGED <<focus, right_cursor, cwd, all_entries, search_mode,
                   filter_before_search, shown_before_search, present, right_top>>

\* lines 371-375, a printable character
SearchChar(ch) ==
    /\ SearchKey("search_char")
    /\ Len(filter_text) < MaxFilter
    /\ filter_text' = Append(filter_text, ch)
    /\ entries' = apply_filter(all_entries, Append(filter_text, ch))
    /\ left_cursor' = 0
    /\ left_top' = 0
    /\ player' = Begin(player)
    /\ UNCHANGED <<focus, right_cursor, cwd, all_entries, search_mode,
                   filter_before_search, shown_before_search, present, right_top>>

\* line 375, any other key (Tab, arrows, ...)
SearchOther ==
    /\ SearchKey("search_other")
    /\ player' = Begin(player)
    /\ UNCHANGED <<focus, right_cursor, browser, present, right_top>>

\* KeyQuit without the test of the search mode
KeyQuit_anymode ==
    /\ pc = "getch"
    /\ pc' = "exited"
    /\ player' = [Begin(player) EXCEPT !.player = vlc_stop(Begin(player).player)]
    /\ last' = Record("quit", 0, 0, <<>>)
    /\ UNCHANGED <<focus, right_cursor, browser, present, right_top>>

\* lines 381-382 and 576: 'q' or Esc leaves the loop, and the engine is stopped
KeyQuit ==
    /\ pc = "getch"
    /\ ~search_mode
    /\ pc' = "exited"
    /\ player' = [Begin(player) EXCEPT !.player = vlc_stop(Begin(player).player)]
    /\ last' = Record("quit", 0, 0, <<>>)
    /\ UNCHANGED <<focus, right_cursor, browser, present, right_top>>

\* KeySlash without the test of the focus
KeySlash_anyfocus ==
    /\ Key("slash")
    /\ search_mode' = TRUE
    /\ filter_before_search' = filter_text
    /\ shown_before_search' = [text |-> filter_text, list |-> entries]
    /\ filter_text' = <<>>
    /\ entries' = all_entries
    /\ left_cursor' = 0
    /\ left_top' = 0
    /\ player' = Begin(player)
    /\ UNCHANGED <<focus, right_cursor, cwd, all_entries, present, right_top>>

\* lines 385-390; with the focus on the queue '/' is bound to nothing
KeySlash ==
    /\ Key("slash")
    /\ IF focus = "left"
       THEN /\ search_mode' = TRUE
            /\ filter_before_search' = filter_text
            /\ shown_before_search' = [text |-> filter_text, list |-> entries]
            /\ filter_text' = <<>>
            /\ entries' = all_entries
            /\ left_cursor' = 0
            /\ left_top' = 0
       ELSE UNCHANGED <<search_mode, filter_before_search, shown_before_search,
                        filter_text, entries,
                        left_cursor, left_top>>
    /\ player' = Begin(player)
    /\ UNCHANGED <<focus, right_cursor, cwd, all_entries, present, right_top>>

\* lines 394-395
KeyTab ==
    /\ Key("tab")
    /\ focus' = IF focus = "left" THEN "right" ELSE "left"
    /\ player' = Begin(player)
    /\ UNCHANGED <<right_cursor, browser, present, right_top>>

\* the cursor of the focused pane moves by `step` rows (lines 400-403 and alike)
MoveCursor(step) ==
    /\ IF focus = "left"
       THEN /\ left_cursor' = clamp(left_cursor + step, 0, Max(0, Len(entries) - 1))
            /\ UNCHANGED right_cursor
       ELSE /\ right_cursor' = clamp(right_cursor + step, 0,
                                     Max(0, Len(player.queue) - 1))
            /\ UNCHANGED left_cursor
    /\ player' = Begin(player)
    /\ UNCHANGED <<focus, cwd, all_entries, entries, left_top, filter_text,
                   search_mode, filter_before_search,
                   shown_before_search, present, right_top>>

\* lines 415-417: page = max(1, list_h - 1), list_h = h - 3
page == Max(1, (ScreenRows - 3) - 1)

\* lines 399-403
KeyDown == Key("down") /\ MoveCursor(1)

\* lines 406-410
KeyUp == Key("up") /\ MoveCursor(-1)

\* lines 414-421
KeyNPage == Key("npage") /\ MoveCursor(page)

\* lines 424-431
KeyPPage == Key("ppage") /\ MoveCursor(-page)

\* lines 447-453 (and 478-484): the folder's tracks become the queue and the
\* selected one is played
play_selected(self, files, folder, sel) ==
    LET mp3s == collect_mp3s(files, folder)
        queued == set_queue(self, mp3s)
        found == [queued EXCEPT !.idx = IF sel \in Elems(mp3s)
                                        THEN IndexOf(mp3s, sel)
                                        ELSE 0]
    IN  play_current(found)

\* lines 441-445: the browser enters directory d
EnterDir(d) ==
    /\ cwd' = d
    /\ all_entries' = list_dir(present, d)
    /\ filter_text' = <<>>
    /\ entries' = list_dir(present, d)
    /\ left_cursor' = 0
    /\ left_top' = 0

\* lines 457-459 (and 488-490)
PlayAtCursor ==
    /\ player' = IF player.queue # <<>>
                 THEN play_index(Begin(player), right_cursor)
                 ELSE Begin(player)
    /\ UNCHANGED <<right_cursor, browser>>

\* KeyEnter acting on the browser whichever pane has the focus
KeyEnter_anyfocus ==
    /\ Key("enter")
    /\ IF entries = <<>>
       THEN /\ player' = Begin(player)
            /\ UNCHANGED <<right_cursor, browser>>
       ELSE LET sel == At(entries, left_cursor)
            IN  IF is_dir(sel)
                THEN /\ EnterDir(sel)
                     /\ player' = Begin(player)
                     /\ UNCHANGED <<right_cursor, search_mode,
                                    filter_before_search, shown_before_search>>
                ELSE /\ player' = play_selected(Begin(player), present, cwd, sel)
                     /\ right_cursor' = player'.idx
                     /\ UNCHANGED browser
    /\ UNCHANGED <<focus, present, right_top>>

\* lines 435-459
KeyEnter ==
    /\ Key("enter")
    /\ IF focus = "left"
       THEN IF entries = <<>>
            THEN /\ player' = Begin(player)
                 /\ UNCHANGED <<right_cursor, browser>>
            ELSE LET sel == At(entries, left_cursor)
                 IN  IF is_dir(sel)
                     THEN /\ EnterDir(sel)
                          /\ player' = Begin(player)
                          /\ UNCHANGED <<right_cursor, search_mode,
                                         filter_before_search, shown_before_search>>
                     ELSE /\ player' = play_selected(Begin(player), present, cwd, sel)
                          /\ right_cursor' = player'.idx
                          /\ UNCHANGED browser
       ELSE PlayAtCursor
    /\ UNCHANGED <<focus, present, right_top>>

\* lines 463-490
KeyS ==
    /\ Key("s")
    /\ IF focus = "left"
       THEN IF entries = <<>>
            THEN /\ player' = Begin(player)
                 /\ UNCHANGED <<right_cursor, browser>>
            ELSE LET sel == At(entries, left_cursor)
                 IN  IF is_dir(sel)
                     THEN LET mp3s == collect_mp3s(present, sel)
                              queued == set_queue(Begin(player), mp3s)
                          IN  /\ player' = IF mp3s # <<>> THEN play_current(queued)
                                           ELSE queued
                              /\ right_cursor' = IF mp3s # <<>> THEN player'.idx
                                                 ELSE right_cursor
                              /\ UNCHANGED browser
                     ELSE /\ player' = play_selected(Begin(player), present, cwd, sel)
                          /\ right_cursor' = player'.idx
                          /\ UNCHANGED browser
       ELSE PlayAtCursor
    /\ UNCHANGED <<focus, present, right_top>>

\* lines 494-520
KeyA ==
    /\ Key("a")
    /\ IF focus = "left"
       THEN IF entries = <<>>
            THEN /\ player' = Begin(player)
                 /\ UNCHANGED right_cursor
            ELSE LET sel == At(entries, left_cursor)
                     mp3s == IF is_dir(sel) THEN collect_mp3s(present, sel) ELSE <<sel>>
                 IN  /\ Len(player.queue) + Len(mp3s) <= MaxQueue
                     /\ player' = IF mp3s # <<>>
                                  THEN add_to_queue(Begin(player), mp3s)
                                  ELSE Begin(player)
                     /\ right_cursor' = IF player'.idx >= 0 THEN player'.idx
                                        ELSE right_cursor
       ELSE /\ player' = Begin(player)
            /\ UNCHANGED right_cursor
    /\ UNCHANGED <<focus, browser, present, right_top>>

\* lines 524-531
KeyB ==
    /\ Key("b")
    /\ IF Parent(cwd) # cwd
       THEN /\ EnterDir(Parent(cwd))
            /\ UNCHANGED <<search_mode, filter_before_search, shown_before_search>>
       ELSE UNCHANGED browser
    /\ player' = Begin(player)
    /\ UNCHANGED <<focus, right_cursor, present, right_top>>

\* lines 535-536
KeySpace ==
    /\ Key("space")
    /\ player' = toggle_pause(Begin(player))
    /\ UNCHANGED <<focus, right_cursor, browser, present, right_top>>

\* lines 540-542
KeyN ==
    /\ Key("n")
    /\ player' = next(Begin(player))
    /\ right_cursor' = player'.idx
    /\ UNCHANGED <<focus, browser, present, right_top>>

\* lines 546-548
KeyP ==
    /\ Key("p")
    /\ player' = prev(Begin(player))
    /\ right_cursor' = player'.idx
    /\ UNCHANGED <<focus, browser, present, right_top>>

\* lines 552-557; with the focus on the browser the key is bound to nothing
KeyX ==
    /\ Key("x")
    /\ IF focus = "right" /\ player.queue # <<>>
       THEN /\ player' = remove_index(Begin(player), right_cursor)
            /\ right_cursor' = clamp(right_cursor, 0, Max(0, Len(player'.queue) - 1))
       ELSE /\ player' = Begin(player)
            /\ UNCHANGED right_cursor
    /\ UNCHANGED <<focus, browser, present, right_top>>

\* lines 561-565
KeyD ==
    /\ Key("d")
    /\ IF focus = "right" /\ player.queue # <<>>
            /\ right_cursor < Len(player.queue) - 1
       THEN /\ player' = move_index(Begin(player), right_cursor, 1)
            /\ right_cursor' = right_cursor + 1
       ELSE /\ player' = Begin(player)
            /\ UNCHANGED right_cursor
    /\ UNCHANGED <<focus, browser, present, right_top>>

\* lines 569-573
KeyU ==
    /\ Key("u")
    /\ IF focus = "right" /\ player.queue # <<>> /\ right_cursor > 0
       THEN /\ player' = move_index(Begin(player), right_cursor, -1)
            /\ right_cursor' = right_cursor - 1
       ELSE /\ player' = Begin(player)
            /\ UNCHANGED right_cursor
    /\ UNCHANGED <<focus, browser, present, right_top>>

\* a key bound to nothing in normal mode
KeyOther ==
    /\ Key("other")
    /\ player' = Begin(player)
    /\ UNCHANGED <<focus, right_cursor, browser, present, right_top>>

\* lines 314-579: an exception raised inside an iteration (KeyboardInterrupt at
\* Ctrl+C, curses.error from an addnstr of draw_ui on a terminal too small) is
\* caught nowhere in main: it leaves the loop and main, passing line 576 by,
\* and curses.wrapper restores the terminal and raises it again
Interrupt ==
    /\ pc \in {"loop", "getch"}
    /\ pc' = "raised"
    /\ player' = Begin(player)
    /\ last' = Record("interrupt", 0, 0, <<>>)
    /\ UNCHANGED <<focus, right_cursor, browser, present, right_top>>

\* an mp3 file is deleted from the music folder while the player runs
FileDeleted(t) ==
    /\ t \in present
    /\ present' = present \ {t}
    /\ UNCHANGED <<player, last, pc, focus, right_cursor, right_top, browser>>

Next ==
    \/ LoopHead
    \/ LoopDraw
    \/ NoKey
    \/ SearchEsc
    \/ SearchEnter
    \/ SearchBackspace
    \/ SearchCtrlU
    \/ \E ch \in TypedChars : SearchChar(ch)
    \/ SearchOther
    \/ KeyQuit
    \/ KeySlash
    \/ KeyTab
    \/ KeyDown
    \/ KeyUp
    \/ KeyNPage
    \/ KeyPPage
    \/ KeyEnter
    \/ KeyS
    \/ KeyA
    \/ KeyB
    \/ KeySpace
    \/ KeyN
    \/ KeyP
    \/ KeyX
    \/ KeyD
    \/ KeyU
    \/ KeyOther
    \/ TrackEnds
    \/ Interrupt
    \/ \E t \in FolderFiles : FileDeleted(t)

Spec == Init /\ [][Next]_vars

-----------------------------------------------------------------------------
(* Statements about the queue operations, over the state an operation      *)
(* leaves (player) and the state it found (last.pre)                       *)

pre == last.pre

ValidIn(q, i) == 0 <= i /\ i < Len(q)

\* q with the entry at 0-based position i left out, the rest in order
Without(q, i) == SubSeq(q, 1, i) \o SubSeq(q, i + 2, Len(q))

\* the vlc calls of one load-and-play of track t
LoadPlay(t) == << <<"set_media", t>>, <<"play">> >>

\* the engine was told to load and play t, and is doing so
Started(t) ==
    /\ player.player.calls = LoadPlay(t)
    /\ player.player.media = t
    /\ player.player.state = "Playing"

\* the engine received no call and is as the operation found it
EngineUntouched == player.player = pre.player

\* C1: idx = -1 exactly when the queue is empty, and otherwise idx is a
\* valid position of the queue, in every state the player reaches through
\* its methods and through the keys the main loop dispatches.
C1_IdxInRange ==
    /\ player.idx = -1 <=> player.queue = <<>>
    /\ player.queue # <<>> => ValidIn(player.queue, player.idx)

\* C2: removing the current track of a queue of two or more makes the
\* following track current (the preceding one when the last entry was
\* removed) and loads and plays it.
C2_RemoveCurrent ==
    (last.op = "remove_index" /\ Len(pre.queue) >= 2
        /\ ValidIn(pre.queue, last.i) /\ last.i = pre.idx)
    => /\ player.queue = Without(pre.queue, last.i)
       /\ player.idx = (IF last.i <= Len(pre.queue) - 2 THEN last.i
                        ELSE Len(pre.queue) - 2)
       /\ ValidIn(player.queue, player.idx)
       /\ Started(At(player.queue, player.idx))

\* queue [a, b, c] with b current: remove_index(1) left [a, c] with c playing
C2_Witness ==
    /\ last.op = "remove_index" /\ last.i = 1
    /\ pre.queue = <<"a", "b", "c">> /\ pre.idx = 1
    /\ player.queue = <<"a", "c">> /\ player.idx = 1
    /\ player.player.media = "c"

\* C3: removing an entry other than the current one keeps the current track:
\* idx drops by one when the entry was before it and stays otherwise, the
\* other entries keep their order, and the engine receives no call.
C3_RemoveOther ==
    (last.op = "remove_index" /\ ValidIn(pre.queue, last.i) /\ last.i # pre.idx)
    => /\ player.queue = Without(pre.queue, last.i)
       /\ player.idx = (IF last.i < pre.idx THEN pre.idx - 1 ELSE pre.idx)
       /\ ValidIn(player.queue, player.idx)
       /\ At(player.queue, player.idx) = At(pre.queue, pre.idx)
       /\ EngineUntouched
       /\ player.paused = pre.paused

\* an entry before the current one was removed and idx followed the track
C3_Witness ==
    /\ last.op = "remove_index" /\ last.i = 0
    /\ pre.queue = <<"a", "b", "c">> /\ pre.idx = 2
    /\ player.queue = <<"b", "c">> /\ player.idx = 1

\* C4: a removal that empties the queue leaves idx = -1 and stops the engine.
C4_RemoveLast ==
    /\ (last.op = "remove_index" /\ Len(pre.queue) = 1 /\ last.i = 0)
       => player.queue = <<>>
    /\ (last.op = "remove_index" /\ pre.queue # <<>> /\ player.queue = <<>>)
       => /\ player.idx = -1
          /\ player.player.calls = << <<"stop">> >>
          /\ player.player.state = "Stopped"

\* the only entry, which was playing, was removed
C4_Witness ==
    /\ last.op = "remove_index"
    /\ pre.queue = <<"a">> /\ pre.player.state = "Playing"
    /\ player.queue = <<>>

\* C5: move_index(i, d) within bounds swaps the entries at i and i+d and
\* moves idx with the track it points at; moving back restores queue and idx.
C5_Move ==
    (last.op = "move_index" /\ ValidIn(pre.queue, last.i)
        /\ ValidIn(pre.queue, last.i + last.d))
    => LET i == last.i
           j == last.i + last.d
       IN  /\ Len(player.queue) = Len(pre.queue)
           /\ At(player.queue, i) = At(pre.queue, j)
           /\ At(player.queue, j) = At(pre.queue, i)
           /\ \A k \in 0 .. Len(pre.queue) - 1 :
                  k \notin {i, j} => At(player.queue, k) = At(pre.queue, k)
           /\ player.idx = (IF pre.idx = i THEN j
                            ELSE IF pre.idx = j THEN i ELSE pre.idx)
           /\ At(player.queue, player.idx) = At(pre.queue, pre.idx)
           /\ LET back == move_index(player, j, -last.d)
              IN  back.queue = pre.queue /\ back.idx = pre.idx

\* the current track was moved down and idx went with it
C5_Witness ==
    /\ last.op = "move_index" /\ last.i = 0 /\ last.d = 1
    /\ pre.queue = <<"a", "b", "c">> /\ pre.idx = 0
    /\ player.queue = <<"b", "a", "c">> /\ player.idx = 1

RECURSIVE NextTimes(_, _)
NextTimes(self, n) == IF n = 0 THEN self ELSE NextTimes(next(self), n - 1)

\* C6: next and prev step idx by one with wraparound and play the track they
\* arrive at; on an empty queue they change nothing; next len(queue) times,
\* and next followed by prev, bring idx back.
C6_NextPrev ==
    /\ (last.op = "next" /\ pre.queue # <<>>)
       => /\ player.idx = (IF pre.idx = Len(pre.queue) - 1 THEN 0 ELSE pre.idx + 1)
          /\ player.queue = pre.queue
          /\ Started(At(player.queue, player.idx))
          /\ prev(player).idx = pre.idx
    /\ (last.op = "prev" /\ pre.queue # <<>>)
       => /\ player.idx = (IF pre.idx = 0 THEN Len(pre.queue) - 1 ELSE pre.idx - 1)
          /\ player.queue = pre.queue
          /\ Started(At(player.queue, player.idx))
    /\ (last.op \in {"next", "prev"} /\ pre.queue = <<>>) => player = pre
    /\ player.queue # <<>> => NextTimes(player, Len(player.queue)).idx = player.idx

\* next on the last track of a longer queue wrapped to the first
C6_Witness ==
    /\ last.op = "next"
    /\ Len(pre.queue) = 3 /\ pre.idx = 2
    /\ player.idx = 0 /\ player.player.media = At(player.queue, 0)

\* C7 as stated: set_queue replaces the queue, sets idx, and itself has the
\* engine load and play track 0 of a non-empty list.
C7_SetQueuePlays ==
    last.op = "set_queue"
    => /\ player.queue = last.files
       /\ player.idx = (IF last.files # <<>> THEN 0 ELSE -1)
       /\ last.files # <<>> => Started(last.files[1])

\* C7 amended: set_queue replaces the queue and sets idx to 0, or -1 for an
\* empty list, and makes no call on the engine; the play_current the caller
\* makes next is what loads and plays track 0.
C7_SetQueue ==
    last.op = "set_queue"
    => /\ player.queue = last.files
       /\ player.idx = (IF last.files # <<>> THEN 0 ELSE -1)
       /\ EngineUntouched
       /\ player.paused = pre.paused
       /\ last.files # <<>>
          => LET played == play_current(player)
             IN  /\ played.player.calls = LoadPlay(last.files[1])
                 /\ played.player.state = "Playing"

\* set_queue replaced a queue whose track b was playing, and b plays on
C7_Witness ==
    /\ last.op = "set_queue" /\ last.files = <<"a", "c">>
    /\ pre.queue = <<"b">> /\ pre.player.state = "Playing"
    /\ player.queue = <<"a", "c">> /\ player.idx = 0
    /\ player.player.media = "b" /\ player.player.state = "Playing"

\* C8: add_to_queue with no tracks changes nothing; otherwise it appends them
\* after the existing entries; on a queue that was empty it sets idx = 0 and
\* plays the first appended track; on a non-empty one idx, the paused flag
\* and the engine stay as they were.
C8_AddToQueue ==
    /\ (last.op = "add_to_queue" /\ last.files = <<>>) => player = pre
    /\ (last.op = "add_to_queue" /\ last.files # <<>>)
       => /\ player.queue = pre.queue \o last.files
          /\ pre.queue = <<>>
             => player.idx = 0 /\ Started(last.files[1]) /\ ~player.paused
          /\ pre.queue # <<>>
             => /\ player.idx = pre.idx
                /\ EngineUntouched
                /\ player.paused = pre.paused

\* tracks were appended behind a paused current track, which stayed paused
C8_Witness ==
    /\ last.op = "add_to_queue" /\ last.files = <<"c">>
    /\ pre.queue = <<"a", "b">> /\ pre.idx = 1 /\ pre.paused
    /\ pre.player.state = "Paused"
    /\ player.queue = <<"a", "b", "c">> /\ player.idx = 1
    /\ player.player.state = "Paused"

\* C9: remove_index and move_index with a position out of range change
\* nothing: queue, idx, paused and the engine are as they were.
C9_OutOfRange ==
    /\ (last.op = "remove_index" /\ ~ValidIn(pre.queue, last.i)) => player = pre
    /\ (last.op = "move_index"
          /\ (~ValidIn(pre.queue, last.i) \/ ~ValidIn(pre.queue, last.i + last.d)))
       => player = pre

\* remove_index(-1) was called on a queue of two
C9_Witness ==
    /\ last.op = "remove_index" /\ last.i = -1
    /\ Len(pre.queue) = 2 /\ Len(player.queue) = 2

\* C10: toggle_pause pauses a playing engine and sets the flag; otherwise,
\* with the flag set, it resumes the engine on the same track without
\* loading it and clears the flag; otherwise it starts the current track.
C10_TogglePause ==
    last.op = "toggle_pause"
    => /\ pre.player.state = "Playing"
          => /\ player.player.state = "Paused"
             /\ player.player.calls = << <<"pause">> >>
             /\ player.paused
       /\ (pre.player.state # "Playing" /\ pre.paused)
          => /\ player.player.state = "Playing"
             /\ player.player.media = pre.player.media
             /\ player.player.calls = << <<"pause">> >>
             /\ ~player.paused
       /\ (pre.player.state # "Playing" /\ ~pre.paused /\ current(pre) # None)
          => Started(current(pre)) /\ ~player.paused

-----------------------------------------------------------------------------
(* Statements about the main loop *)

\* the rows of a list that a frame shows: range(list_h - 1) in draw_ui
viewport_height == list_h - 1

\* the cursor is inside the window when the list is longer than the window,
\* and the window starts at the top when the whole list fits
Visible(cursor, top, total) ==
    /\ total > viewport_height => (top <= cursor /\ cursor < top + viewport_height)
    /\ total <= viewport_height => top = 0

BothVisible ==
    /\ Visible(left_cursor, left_top, Len(entries))
    /\ Visible(right_cursor, right_top, Len(player.queue))

CursorMoves == {"down", "up", "npage", "ppage"}

\* C11 as stated: after every up/down/page move the cursor of each pane is
\* inside its window (and the window is at the top when the list fits).
C11_VisibleAfterMove == last.op \in CursorMoves => BothVisible

\* C11 amended: in every frame the loop draws, the scroll positions having
\* been recomputed just before, the cursor of each pane is inside its window
\* when the list is longer than the window, and the window is at the top
\* when the list fits.
C11_VisibleWhenDrawn == last.op = "draw" => BothVisible

\* a frame was drawn with the queue scrolled down to keep its cursor in view
C11_Witness ==
    /\ last.op = "draw"
    /\ Len(player.queue) > viewport_height
    /\ right_top > 0
    /\ right_cursor = right_top + viewport_height - 1


\* C12: a search begins only with the focus on the browser and no search in
\* progress, the focus changes only while no search is in progress, and so
\* whenever a search is in progress the focus is on the browser.
C12_SearchInBrowser ==
    [][/\ (~search_mode /\ search_mode') => focus = "left"
       /\ focus' # focus => (~search_mode /\ ~search_mode')
       /\ search_mode' => focus' = "left"]_vars

\* Tab was pressed during a search and the focus stayed where it was
C12_Witness == search_mode /\ last.op = "search_other" /\ focus = "left"

\* C13: a search that began with filter text F and is cancelled, whatever was
\* typed, deleted or cleared in between, leaves no search in progress, the
\* filter text F and the list that was on screen when the search began, which
\* is the listing filtered by F.
C13_CancelRestores ==
    [][(search_mode /\ last'.op = "search_esc") =>
           /\ ~search_mode'
           /\ filter_text' = shown_before_search.text
           /\ entries' = shown_before_search.list
           /\ entries' = apply_filter(all_entries', shown_before_search.text)]_vars

\* a search that began with a filter in place was cancelled
C13_Witness ==
    /\ last.op = "search_esc"
    /\ ~search_mode
    /\ filter_text # <<>>
    /\ entries # all_entries

\* the name of e contains text, letter case aside
Matches(e, text) ==
    \E k \in 0 .. Len(Name(e)) - Len(text) :
        Lower(SubSeq(Name(e), k + 1, k + Len(text))) = Lower(text)

\* a listing of directory d: children of d, none twice, the directories before
\* the files, and each of the two groups in the order of the lower-cased names
IsListing(list, d) ==
    /\ \A k \in 1 .. Len(list) :
           IF is_dir(list[k]) THEN Parent(list[k]) = d /\ list[k] # d
           ELSE list[k] \in FolderFiles /\ Home(list[k]) = d
    /\ \A j, k \in 1 .. Len(list) : j < k =>
           /\ list[j] # list[k]
           /\ is_dir(list[k]) => is_dir(list[j])
           /\ is_dir(list[j]) = is_dir(list[k]) =>
                  ~StrLess(Lower(Name(list[k])), Lower(Name(list[j])))

\* C14: the list in the browser is always the listing of the current directory
\* as last read (directories first, each group by lower-cased name) restricted
\* to the entries whose name contains the filter text, letter case aside, in
\* the same order, and the whole listing when the filter text is empty.
C14_EntriesFiltered ==
    LET Keep(e) == Matches(e, filter_text)
    IN  /\ IsListing(all_entries, cwd)
        /\ entries = SelectSeq(all_entries, Keep)
        /\ filter_text = <<>> => entries = all_entries

\* a typed letter of the other case narrowed a listing of a directory and files
C14_Witness ==
    /\ last.op = "search_char"
    /\ Len(all_entries) = 3
    /\ Len(entries) = 2
    /\ \E k \in 1 .. Len(entries) : ~is_dir(entries[k])

\* C15: with the focus on the queue, or with a search in progress, no step
\* changes the current directory or the listing read from it.
C15_NavigationOnlyInBrowser ==
    [][(focus = "right" \/ search_mode) => UNCHANGED <<cwd, all_entries>>]_vars

\* C15 as the code has it: no step changes the current directory or the listing
\* read from it while a search is in progress; outside a search only Enter with
\* the focus on the browser (into the selected directory) and 'b' with either
\* focus (to the parent) do.
C15_Navigation ==
    [][/\ search_mode => UNCHANGED <<cwd, all_entries>>
       /\ (cwd' # cwd \/ all_entries' # all_entries) =>
              \/ last'.op = "enter" /\ focus = "left" /\ focus' = "left"
                   /\ entries # <<>> /\ cwd' = At(entries, left_cursor)
              \/ last'.op = "b" /\ cwd' = Parent(cwd)]_vars

\* 'b' went up to the parent with the focus on the queue
C15_Witness == last.op = "b" /\ focus = "right" /\ pc = "loop" /\ cwd = Parent(MUSIC_ROOT)

\* C16: whenever a frame has been drawn or a key is about to be read, the focus
\* is not on the queue and idx >= 0, the queue cursor equals idx; so the Tab
\* that moves the focus to the queue finds the cursor on the current track.
C16_CursorFollowsIdx ==
    /\ (pc = "getch" /\ focus # "right" /\ player.idx >= 0) => right_cursor = player.idx
    /\ (last.op = "tab" /\ pc = "loop" /\ focus = "right" /\ player.idx >= 0) =>
           right_cursor = player.idx

\* a track ended with the focus on the browser, the loop advanced to the track
\* after it and the queue cursor went along
C16_Witness ==
    /\ pc = "getch"
    /\ last.op \in {"loop", "draw"}
    /\ focus = "left"
    /\ pre.player.state = "Ended"
    /\ player.idx = 1
    /\ pre.idx = 0
    /\ right_cursor = 1

\* what of the player a listener can tell: the queue, the current index, and
\* the engine's track and state
Audible(p) == <<p.queue, p.idx, p.player.media, p.player.state>>

\* C17: once a track has ended with the queue not empty, and unless the loop
\* is left, nothing a key does comes between the end and the automatic
\* advance: the next change of the player is the loop's next(), after which
\* idx is (idx + 1) mod len and the engine plays that track.
C17_AdvanceBeforeKeys ==
    [][(player.player.state = "Ended" /\ player.queue # <<>>) =>
           \/ Audible(player') = Audible(player)
           \/ pc' = "exited"
           \/ /\ last'.op \in {"loop", "draw"}
              /\ player'.queue = player.queue
              /\ player'.idx = (player.idx + 1) % Len(player.queue)
              /\ player'.player.calls = LoadPlay(At(player.queue, player'.idx))
              /\ player'.player.state = "Playing"]_vars

\* C17 as the code has it: an iteration of the loop that finds the track ended
\* and the queue not empty calls next() before it draws or reads a key: the
\* queue is as it was, idx is (idx + 1) mod len and the engine plays that track.
C17_AdvanceAtPoll ==
    (last.op \in {"loop", "draw"} /\ pre.player.state = "Ended" /\ pre.queue # <<>>) =>
        /\ player.queue = pre.queue
        /\ player.idx = (pre.idx + 1) % Len(pre.queue)
        /\ Started(At(player.queue, player.idx))

\* the last track of a queue of two ended and the loop went on to the first
C17_Witness ==
    /\ last.op \in {"loop", "draw"}
    /\ pre.player.state = "Ended"
    /\ Len(pre.queue) = 2
    /\ pre.idx = 1
    /\ player.idx = 0
    /\ player.player.state = "Playing"

\* C18: the loop is left in the normal way only by the quit key, read while no
\* search is in progress; no other key, no key read during a search, no
\* missing key and no track end leaves it; and the quit has the engine stopped.
C18_QuitOnly ==
    [][(pc # "exited" /\ pc' = "exited") =>
           /\ pc = "getch"
           /\ ~search_mode /\ ~search_mode'
           /\ last'.op = "quit"
           /\ player'.player.calls = << <<"stop">> >>
           /\ player'.player.state = "Stopped"
           /\ player'.queue = player.queue /\ player'.idx = player.idx]_vars

\* the loop was left by the quit key while a track was playing
C18_Witness ==
    /\ pc = "exited"
    /\ last.op = "quit"
    /\ pre.player.state = "Playing"
    /\ player.player.state = "Stopped"

\* C19: however the loop stops running, by the quit key or by an exception
\* raised inside an iteration, the engine has been told to stop, once.
C19_StoppedOnExit ==
    pc \notin {"loop", "getch"} => player.player.calls = << <<"stop">> >>

\* C20: each cursor is a row of its list: 0 when the list is empty, and a
\* valid position of the list otherwise.
C20_CursorsValid ==
    /\ entries = <<>> => left_cursor = 0
    /\ entries # <<>> => ValidIn(entries, left_cursor)
    /\ player.queue = <<>> => right_cursor = 0
    /\ player.queue # <<>> => ValidIn(player.queue, right_cursor)

\* C21: whenever a key is about to be read and the engine is playing or paused
\* on a track, the queue is not empty and that track is queue[idx]; the
\* engine never plays while the queue is empty.
C21_EngineAgreesWithQueue ==
    (pc = "getch" /\ player.player.state \in {"Playing", "Paused"}) =>
        /\ player.queue # <<>>
        /\ ValidIn(player.queue, player.idx)
        /\ player.player.media = At(player.queue, player.idx)

=============================================================================
